---- MODULE Spec2Model ----
(***************************************************************************)
(* The author and book controllers of the catalog application, as a state *)
(* machine over the document store.  A request walks through its express  *)
(* middleware chain (genre conversion, validators, final handler); every  *)
(* `await` of a handler is a separate step, so that store operations of   *)
(* two requests can interleave.  Strings are sequences of characters.     *)
(***************************************************************************)
EXTENDS Integers, Sequences, FiniteSets, TLC

\* Number of ObjectIds each collection can hand out (and of ids a URL can name).
MaxId == 2

VARIABLES
  db,       \* the document store: the four collections and the ObjectId counters
  req       \* per request process: position in the handler, inputs, locals, responses

vars == <<db, req>>

----------------------------------------------------------------------------
(* Values *)

Id(i) == <<ToString(i)>>
Ids == {Id(i) : i \in 1..MaxId}

\* JavaScript values whose type the code inspects (typeof, Array.isArray, Date).
JSUndefined == [t |-> "undefined", v |-> <<>>]
JSNull == [t |-> "null", v |-> <<>>]
JSString(s) == [t |-> "string", v |-> s]
JSArray(xs) == [t |-> "array", v |-> xs]
JSDate(s) == [t |-> "Date", v |-> s]

Alnum == {"a", "b", "g", "i", "s"} \cup {ToString(i) : i \in 0..9}

----------------------------------------------------------------------------
(* express-validator sanitizers and validators *)

RECURSIVE LTrim(_)
LTrim(s) == IF s # <<>> /\ Head(s) = " " THEN LTrim(Tail(s)) ELSE s

RECURSIVE RTrim(_)
RTrim(s) == IF s # <<>> /\ s[Len(s)] = " " THEN RTrim(SubSeq(s, 1, Len(s) - 1)) ELSE s

trim(s) == RTrim(LTrim(s))

escapeChar(c) ==
  CASE c = "<" -> <<"&", "l", "t", ";">>
    [] c = ">" -> <<"&", "g", "t", ";">>
    [] c = "&" -> <<"&", "a", "m", "p", ";">>
    [] OTHER -> <<c>>

RECURSIVE escape(_)
escape(s) == IF s = <<>> THEN <<>> ELSE escapeChar(Head(s)) \o escape(Tail(s))

isLength(s, min) == Len(s) >= min

isAlphanumeric(s) == s # <<>> /\ \A i \in 1..Len(s) : s[i] \in Alnum

\* Dates are one-token strings; the tokens below are the ISO 8601 ones.
ISODates == {"2020-01-01"}
isISO8601(s) == Len(s) = 1 /\ s[1] \in ISODates

toDate(s) == IF isISO8601(s) THEN JSDate(s) ELSE JSNull

Error(path, msg) == [path |-> path, msg |-> msg]

\* body(path).trim().isLength({min:1}).escape().withMessage(m1).isAlphanumeric().withMessage(m2)
NameChain(path, raw, m1, m2) ==
  LET v1 == trim(raw)
      e1 == IF isLength(v1, 1) THEN <<>> ELSE <<Error(path, m1)>>
      v2 == escape(v1)
      e2 == IF isAlphanumeric(v2) THEN <<>> ELSE <<Error(path, m2)>>
  IN [value |-> v2, errors |-> e1 \o e2]

\* body(path, msg).optional({values:'falsy'}).isISO8601().toDate()
DateChain(path, raw, msg) ==
  IF raw = <<>>
    THEN [value |-> JSString(raw), errors |-> <<>>]
    ELSE [value |-> toDate(raw),
          errors |-> IF isISO8601(raw) THEN <<>> ELSE <<Error(path, msg)>>]

\* body(path, msg).trim().isLength({min:1}).escape()
TextChain(path, raw, msg) ==
  LET v1 == trim(raw)
  IN [value |-> escape(v1),
      errors |-> IF isLength(v1, 1) THEN <<>> ELSE <<Error(path, msg)>>]

\* body('genre.*').escape(): every element of the array, no validator
GenreChain(g) ==
  IF g.t = "array"
    THEN JSArray([i \in 1..Len(g.v) |->
                    IF g.v[i].t = "string" THEN JSString(escape(g.v[i].v)) ELSE g.v[i]])
    ELSE g

\* The validator chains of author_create_post and author_update_post.
AuthorValidators(b) ==
  LET fn == NameChain("first_name", b.first_name, "First name must be specified.",
                      "First name has non-alphanumeric characters.")
      gn == NameChain("family_name", b.family_name, "Family name must be specified.",
                      "Family name has non-alphanumeric characters.")
      db1 == DateChain("date_of_birth", b.date_of_birth, "Invalid date of birth")
      dd1 == DateChain("date_of_death", b.date_of_death, "Invalid date of death")
  IN [body |-> [first_name |-> fn.value, family_name |-> gn.value,
                date_of_birth |-> db1.value, date_of_death |-> dd1.value],
      errors |-> fn.errors \o gn.errors \o db1.errors \o dd1.errors]

\* The validator chains of book_create_post and book_update_post.
BookValidators(b) ==
  LET ti == TextChain("title", b.title, "Title must not be empty.")
      au == TextChain("author", b.author, "Author must not be empty.")
      su == TextChain("summary", b.summary, "Summary must not be empty.")
      is == TextChain("isbn", b.isbn, "ISBN must not be empty")
  IN [body |-> [title |-> ti.value, author |-> au.value, summary |-> su.value,
                isbn |-> is.value, genre |-> GenreChain(b.genre)],
      errors |-> ti.errors \o au.errors \o su.errors \o is.errors]

\* Mutant: the Array.isArray test is left out, so an array is wrapped again.
GenreToArray_wraps(g) ==
  IF g.t = "undefined" THEN JSArray(<<>>) ELSE JSArray(<<g>>)

\* Convert the genre to an array (first middleware of the two book POST chains).
GenreToArray(g) ==
  IF g.t # "array"
    THEN (IF g.t = "undefined" THEN JSArray(<<>>) ELSE JSArray(<<g>>))
    ELSE g

----------------------------------------------------------------------------
(* Documents and the mongoose calls the controllers make *)

NoDoc == [_id |-> <<>>]

\* new Author({...}): the document the handler builds from req.body
AuthorDoc(id, b) ==
  [_id |-> id, first_name |-> b.first_name, family_name |-> b.family_name,
   date_of_birth |-> b.date_of_birth, date_of_death |-> b.date_of_death]

\* new Book({...})
BookDoc(id, b, genre) ==
  [_id |-> id, title |-> b.title, author |-> b.author, summary |-> b.summary,
   isbn |-> b.isbn, genre |-> genre]

\* The url virtuals of the Author and Book models.
AuthorUrl(doc) == <<"/catalog/author/">> \o doc._id
BookUrl(doc) == <<"/catalog/book/">> \o doc._id

findById(coll, id) == {d \in coll : d._id = id}

\* Book.find({ author: id }, 'title summary')
findBooksByAuthor(coll, id) ==
  {[_id |-> b._id, title |-> b.title, summary |-> b.summary] : b \in {x \in coll : x.author = id}}

\* BookInstance.find({ book: id })
findInstancesOfBook(coll, id) == {i \in coll : i.book = id}

countDocuments(coll) == {[count |-> Cardinality(coll)]}

\* .populate('author'): the reference replaced by the document, or null
populateAuthor(books, d) ==
  {[b EXCEPT !.author = findById(d.Author, b.author)] : b \in books}

\* .populate('genre'): the referenced genres that exist
populateGenre(books, d) ==
  {[b EXCEPT !.genre = {g \in d.Genre : \E i \in 1..Len(b.genre.v) : b.genre.v[i].v = g._id}]
     : b \in books}

NoWrite == [op |-> "none"]
Save(model, doc) == [op |-> "save", model |-> model, doc |-> doc]
FindByIdAndDelete(model, id) == [op |-> "findByIdAndDelete", model |-> model, id |-> id]
FindByIdAndUpdate(model, id, doc) ==
  [op |-> "findByIdAndUpdate", model |-> model, id |-> id, doc |-> doc]

\* The collection a write leaves behind.
WriteEffect(w, coll) ==
  CASE w.op = "save" -> coll \cup {w.doc}
    [] w.op = "findByIdAndDelete" -> {d \in coll : d._id # w.id}
    [] w.op = "findByIdAndUpdate" ->
         {IF d._id = w.id THEN [w.doc EXCEPT !._id = d._id] ELSE d : d \in coll}
    [] OTHER -> coll

\* What the write's promise resolves to: the saved document, or the document
\* that was found (before the change), or nothing (null).
WriteResult(w, coll) ==
  CASE w.op = "save" -> {w.doc}
    [] w.op \in {"findByIdAndDelete", "findByIdAndUpdate"} -> findById(coll, w.id)
    [] OTHER -> {}

\* Mutant: deleting an author also deletes the books that name it.
ApplyWrite_cascade(w, d) ==
  IF w.op = "none" THEN d
  ELSE IF w.op = "findByIdAndDelete" /\ w.model = "Author"
    THEN [d EXCEPT !.Author = WriteEffect(w, @), !.Book = {b \in @ : b.author # w.id}]
    ELSE [d EXCEPT ![w.model] = WriteEffect(w, d[w.model])]

ApplyWrite(w, d) ==
  IF w.op = "none" THEN d ELSE [d EXCEPT ![w.model] = WriteEffect(w, d[w.model])]

----------------------------------------------------------------------------
(* Responses and the shape of one run of handler code between two awaits *)

Render(view, locals) == [kind |-> "render", view |-> view, locals |-> locals]
Redirect(url) == [kind |-> "redirect", url |-> url]
NextErr(err) == [kind |-> "next", err |-> err]

\* const err = new Error(message); err.status = 404;
NotFound(message) == [name |-> "Error", message |-> message, status |-> 404]
\* reading .url of null
TypeError == [name |-> "TypeError", message |-> "null.url", status |-> 0]
\* a rejected store promise
StoreError == [name |-> "MongoError", message |-> "rejected", status |-> 0]

\* The code ran to a response and returned.
Respond(x) == [out |-> <<x>>, pending |-> {}, write |-> NoWrite, doc |-> NoDoc]
\* The code reached `await Promise.all([...])` over the named reads.
Await(reads) == [out |-> <<>>, pending |-> reads, write |-> NoWrite, doc |-> NoDoc]
\* The code reached the `await` of a write.
AwaitWrite(w) == [out |-> <<>>, pending |-> {}, write |-> w, doc |-> NoDoc]
\* The code built a new document on its way.
Built(doc, res) == [res EXCEPT !.doc = doc]

The(set) == CHOOSE x \in set : TRUE

----------------------------------------------------------------------------
(* The handlers.  Each operator is the handler's code from where the request *)
(* stands (r.pc: "handler" on entry, "reads" when the awaited reads have     *)
(* resolved into r.loc, "write" when the awaited write has resolved into     *)
(* r.res) up to its next await or its return.  d is the store.               *)

\* authorController.author_list
author_list(r, d) ==
  IF r.pc = "handler" THEN Await({"allAuthors"})
  ELSE Respond(Render("author_list",
         [title |-> "Author List", author_list |-> r.loc["allAuthors"]]))

\* authorController.author_detail
author_detail(r, d) ==
  IF r.pc = "handler" THEN Await({"author", "allBooksByAuthor"})
  ELSE IF r.loc["author"] = {}
    THEN Respond(NextErr(NotFound("Author not found")))
    ELSE Respond(Render("author_detail",
           [title |-> "Author Detail", author |-> r.loc["author"],
            author_books |-> r.loc["allBooksByAuthor"]]))

\* authorController.author_create_get
author_create_get(r, d) ==
  Respond(Render("author_form", [title |-> "Create Author"]))

\* Mutant: the author is not saved before the redirect.
author_create_post_unsaved(r, d) ==
  LET author == AuthorDoc(Id(d.nextAuthor), r.body)
  IN Built(author,
       IF r.errors # <<>>
         THEN Respond(Render("author_form",
                [title |-> "Create Author", author |-> author, errors |-> r.errors]))
         ELSE Respond(Redirect(AuthorUrl(author))))

\* Mutant: the `return` after the render of the form is missing.
author_create_post_noreturn(r, d) ==
  IF r.pc = "handler"
    THEN LET author == AuthorDoc(Id(d.nextAuthor), r.body)
         IN Built(author,
              [AwaitWrite(Save("Author", author)) EXCEPT
                 !.out = IF r.errors # <<>>
                           THEN <<Render("author_form",
                                   [title |-> "Create Author", author |-> author,
                                    errors |-> r.errors])>>
                           ELSE <<>>])
    ELSE Respond(Redirect(AuthorUrl(r.doc)))

\* authorController.author_create_post (final handler)
author_create_post(r, d) ==
  IF r.pc = "handler"
    THEN LET author == AuthorDoc(Id(d.nextAuthor), r.body)
         IN Built(author,
              IF r.errors # <<>>
                THEN Respond(Render("author_form",
                       [title |-> "Create Author", author |-> author, errors |-> r.errors]))
                ELSE AwaitWrite(Save("Author", author)))
    ELSE Respond(Redirect(AuthorUrl(r.doc)))

\* Mutant: a missing author is reported like in author_detail.
author_delete_get_404(r, d) ==
  IF r.pc = "handler" THEN Await({"author", "allBooksByAuthor"})
  ELSE IF r.loc["author"] = {}
    THEN Respond(NextErr(NotFound("Author not found")))
    ELSE Respond(Render("author_delete",
           [title |-> "Delete Author", author |-> r.loc["author"],
            author_books |-> r.loc["allBooksByAuthor"]]))

\* authorController.author_delete_get
author_delete_get(r, d) ==
  IF r.pc = "handler" THEN Await({"author", "allBooksByAuthor"})
  ELSE IF r.loc["author"] = {}
    THEN Respond(Redirect(<<"/catalog/authors">>))
    ELSE Respond(Render("author_delete",
           [title |-> "Delete Author", author |-> r.loc["author"],
            author_books |-> r.loc["allBooksByAuthor"]]))

\* authorController.author_delete_post
author_delete_post(r, d) ==
  CASE r.pc = "handler" -> Await({"author", "allBooksByAuthor"})
    [] r.pc = "reads" ->
         IF Cardinality(r.loc["allBooksByAuthor"]) > 0
           THEN Respond(Render("author_delete",
                  [title |-> "Delete Author", author |-> r.loc["author"],
                   author_books |-> r.loc["allBooksByAuthor"]]))
           ELSE AwaitWrite(FindByIdAndDelete("Author", r.body.authorid))
    [] OTHER -> Respond(Redirect(<<"/catalog/authors">>))

\* authorController.author_update_get
author_update_get(r, d) ==
  IF r.pc = "handler" THEN Await({"author"})
  ELSE IF r.loc["author"] = {}
    THEN Respond(NextErr(NotFound("Author not found")))
    ELSE Respond(Render("author_form",
           [title |-> "Update Author", author |-> r.loc["author"]]))

\* Mutant: the form is re-rendered under the title of the create form.
author_update_post_title(r, d) ==
  IF r.pc = "handler"
    THEN LET author == AuthorDoc(r.id, r.body)
         IN Built(author,
              IF r.errors # <<>>
                THEN Respond(Render("author_form",
                       [title |-> "Create Author", author |-> author, errors |-> r.errors]))
                ELSE AwaitWrite(FindByIdAndUpdate("Author", r.id, author)))
    ELSE IF r.res = {}
      THEN Respond(NextErr(TypeError))
      ELSE Respond(Redirect(AuthorUrl(The(r.res))))

\* authorController.author_update_post (final handler)
author_update_post(r, d) ==
  IF r.pc = "handler"
    THEN LET author == AuthorDoc(r.id, r.body)
         IN Built(author,
              IF r.errors # <<>>
                THEN Respond(Render("author_form",
                       [title |-> "Update Author", author |-> author, errors |-> r.errors]))
                ELSE AwaitWrite(FindByIdAndUpdate("Author", r.id, author)))
    ELSE IF r.res = {}
      THEN Respond(NextErr(TypeError))
      ELSE Respond(Redirect(AuthorUrl(The(r.res))))

\* allGenres.forEach((genre) => { if (book.genre.includes(genre._id)) genre.checked = 'true' })
MarkChecked(allGenres, book) ==
  {[_id |-> g._id, name |-> g.name,
    checked |-> \E i \in 1..Len(book.genre.v) : book.genre.v[i].v = g._id] : g \in allGenres}

\* bookController.index
index(r, d) ==
  IF r.pc = "handler"
    THEN Await({"numBooks", "numBookInstances", "numAvailableBookInstances",
                "numAuthors", "numGenres"})
    ELSE Respond(Render("index",
           [title |-> "Local Library Home",
            book_count |-> r.loc["numBooks"],
            book_instance_count |-> r.loc["numBookInstances"],
            book_instance_available_count |-> r.loc["numAvailableBookInstances"],
            author_count |-> r.loc["numAuthors"],
            genre_count |-> r.loc["numGenres"]]))

\* bookController.book_list
book_list(r, d) ==
  IF r.pc = "handler" THEN Await({"allBooks"})
  ELSE Respond(Render("book_list", [title |-> "Book List", book_list |-> r.loc["allBooks"]]))

\* bookController.book_detail
book_detail(r, d) ==
  IF r.pc = "handler" THEN Await({"book", "bookInstances"})
  ELSE IF r.loc["book"] = {}
    THEN Respond(NextErr(NotFound("Book not found")))
    ELSE Respond(Render("book_detail",
           [title |-> The(r.loc["book"]).title, book |-> r.loc["book"],
            book_instances |-> r.loc["bookInstances"]]))

\* bookController.book_create_get
book_create_get(r, d) ==
  IF r.pc = "handler" THEN Await({"allAuthors", "allGenres"})
  ELSE Respond(Render("book_form",
         [title |-> "Create Book", authors |-> r.loc["allAuthors"],
          genres |-> r.loc["allGenres"]]))

\* Mutant: the `return` after the render of the form is missing.
book_create_post_noreturn(r, d) ==
  CASE r.pc = "handler" ->
         LET book == BookDoc(Id(d.nextBook), r.body, r.body.genre)
         IN Built(book,
              IF r.errors # <<>>
                THEN Await({"allAuthors", "allGenres"})
                ELSE AwaitWrite(Save("Book", book)))
    [] r.pc = "reads" ->
         [AwaitWrite(Save("Book", r.doc)) EXCEPT
            !.out = <<Render("book_form",
                       [title |-> "Create Book", authors |-> r.loc["allAuthors"],
                        genres |-> MarkChecked(r.loc["allGenres"], r.doc),
                        book |-> r.doc, errors |-> r.errors])>>]
    [] OTHER -> Respond(Redirect(BookUrl(r.doc)))

\* bookController.book_create_post (final handler)
book_create_post(r, d) ==
  CASE r.pc = "handler" ->
         LET book == BookDoc(Id(d.nextBook), r.body, r.body.genre)
         IN Built(book,
              IF r.errors # <<>>
                THEN Await({"allAuthors", "allGenres"})
                ELSE AwaitWrite(Save("Book", book)))
    [] r.pc = "reads" ->
         Respond(Render("book_form",
           [title |-> "Create Book", authors |-> r.loc["allAuthors"],
            genres |-> MarkChecked(r.loc["allGenres"], r.doc),
            book |-> r.doc, errors |-> r.errors]))
    [] OTHER -> Respond(Redirect(BookUrl(r.doc)))

\* bookController.book_delete_get
book_delete_get(r, d) ==
  IF r.pc = "handler" THEN Await({"book", "bookInstances"})
  ELSE IF r.loc["book"] = {}
    THEN Respond(Redirect(<<"/catalog/books">>))
    ELSE Respond(Render("book_delete",
           [title |-> "Delete Book", book |-> r.loc["book"],
            book_instances |-> r.loc["bookInstances"]]))

\* bookController.book_delete_post
book_delete_post(r, d) ==
  CASE r.pc = "handler" -> Await({"book", "bookInstances"})
    [] r.pc = "reads" ->
         IF Cardinality(r.loc["bookInstances"]) > 0
           THEN Respond(Render("book_delete",
                  [title |-> "Delete Book", book |-> r.loc["book"],
                   book_instances |-> r.loc["bookInstances"]]))
           ELSE AwaitWrite(FindByIdAndDelete("Book", r.body.bookid))
    [] OTHER -> Respond(Redirect(<<"/catalog/books">>))

\* bookController.book_update_get
book_update_get(r, d) ==
  IF r.pc = "handler" THEN Await({"book", "allAuthors", "allGenres"})
  ELSE IF r.loc["book"] = {}
    THEN Respond(NextErr(NotFound("Book not found")))
    ELSE Respond(Render("book_form",
           [title |-> "Update Book", authors |-> r.loc["allAuthors"],
            genres |-> MarkChecked(r.loc["allGenres"], The(r.loc["book"])),
            book |-> r.loc["book"]]))

\* Mutant: the _id of the URL is not put on the document, which is then saved
\* under the new ObjectId it was given.
book_update_post_newid(r, d) ==
  CASE r.pc = "handler" ->
         LET book == BookDoc(Id(d.nextBook), r.body,
                       IF r.body.genre.t = "undefined" THEN JSArray(<<>>) ELSE r.body.genre)
         IN Built(book,
              IF r.errors # <<>>
                THEN Await({"allAuthors", "allGenres"})
                ELSE AwaitWrite(Save("Book", book)))
    [] r.pc = "reads" ->
         Respond(Render("book_form",
           [title |-> "Update Book", authors |-> r.loc["allAuthors"],
            genres |-> MarkChecked(r.loc["allGenres"], r.doc),
            book |-> r.doc, errors |-> r.errors]))
    [] OTHER -> Respond(Redirect(BookUrl(The(r.res))))

\* bookController.book_update_post (final handler)
book_update_post(r, d) ==
  CASE r.pc = "handler" ->
         LET book == BookDoc(r.id, r.body,
                       IF r.body.genre.t = "undefined" THEN JSArray(<<>>) ELSE r.body.genre)
         IN Built(book,
              IF r.errors # <<>>
                THEN Await({"allAuthors", "allGenres"})
                ELSE AwaitWrite(FindByIdAndUpdate("Book", r.id, book)))
    [] r.pc = "reads" ->
         Respond(Render("book_form",
           [title |-> "Update Book", authors |-> r.loc["allAuthors"],
            genres |-> MarkChecked(r.loc["allGenres"], r.doc),
            book |-> r.doc, errors |-> r.errors]))
    [] OTHER ->
         IF r.res = {}
           THEN Respond(NextErr(TypeError))
           ELSE Respond(Redirect(BookUrl(The(r.res))))

----------------------------------------------------------------------------
(* Routing, and one step of a request *)

AuthorHandlers ==
  {"author_list", "author_detail", "author_create_get", "author_create_post",
   "author_delete_get", "author_delete_post", "author_update_get", "author_update_post"}
BookHandlers ==
  {"index", "book_list", "book_detail", "book_create_get", "book_create_post",
   "book_delete_get", "book_delete_post", "book_update_get", "book_update_post"}
Handlers == AuthorHandlers \cup BookHandlers

\* Routes with an :id parameter.
IdHandlers ==
  {"author_detail", "author_delete_get", "author_delete_post", "author_update_get",
   "author_update_post", "book_detail", "book_delete_get", "book_delete_post",
   "book_update_get", "book_update_post"}
AuthorFormPosts == {"author_create_post", "author_update_post"}
BookFormPosts == {"book_create_post", "book_update_post"}
FormPosts == AuthorFormPosts \cup BookFormPosts
DeletePosts == {"author_delete_post", "book_delete_post"}
CreatePosts == {"author_create_post", "book_create_post"}

\* The exported handler that serves the request.
Run(r, d) ==
  CASE r.h = "author_list" -> author_list(r, d)
    [] r.h = "author_detail" -> author_detail(r, d)
    [] r.h = "author_create_get" -> author_create_get(r, d)
    [] r.h = "author_create_post" -> author_create_post(r, d)
    [] r.h = "author_delete_get" -> author_delete_get(r, d)
    [] r.h = "author_delete_post" -> author_delete_post(r, d)
    [] r.h = "author_update_get" -> author_update_get(r, d)
    [] r.h = "author_update_post" -> author_update_post(r, d)
    [] r.h = "index" -> index(r, d)
    [] r.h = "book_list" -> book_list(r, d)
    [] r.h = "book_detail" -> book_detail(r, d)
    [] r.h = "book_create_get" -> book_create_get(r, d)
    [] r.h = "book_create_post" -> book_create_post(r, d)
    [] r.h = "book_delete_get" -> book_delete_get(r, d)
    [] r.h = "book_delete_post" -> book_delete_post(r, d)
    [] r.h = "book_update_get" -> book_update_get(r, d)
    [] OTHER -> book_update_post(r, d)

\* The store read behind each awaited local of the handlers.
Query(q, r, d) ==
  CASE q = "author" -> findById(d.Author, r.id)
    [] q = "allBooksByAuthor" -> findBooksByAuthor(d.Book, r.id)
    [] q = "allAuthors" -> d.Author
    [] q = "allGenres" -> d.Genre
    [] q = "book" ->
         (CASE r.h = "book_detail" ->
                 populateGenre(populateAuthor(findById(d.Book, r.id), d), d)
            [] r.h = "book_update_get" -> populateAuthor(findById(d.Book, r.id), d)
            [] OTHER -> findById(d.Book, r.id))
    [] q = "bookInstances" -> findInstancesOfBook(d.BookInstance, r.id)
    [] q = "allBooks" ->
         populateAuthor({[_id |-> b._id, title |-> b.title, author |-> b.author] : b \in d.Book}, d)
    [] q = "numBooks" -> countDocuments(d.Book)
    [] q = "numBookInstances" -> countDocuments(d.BookInstance)
    [] q = "numAvailableBookInstances" ->
         countDocuments({i \in d.BookInstance : i.status = "Available"})
    [] q = "numAuthors" -> countDocuments(d.Author)
    [] OTHER -> countDocuments(d.Genre)

ReadNames ==
  {"author", "allBooksByAuthor", "allAuthors", "allGenres", "book", "bookInstances",
   "allBooks", "numBooks", "numBookInstances", "numAvailableBookInstances",
   "numAuthors", "numGenres"}

NoBody == [none |-> TRUE]
NoLoc == [q \in ReadNames |-> {}]
EmptyStore ==
  [Author |-> {}, Book |-> {}, Genre |-> {}, BookInstance |-> {},
   nextAuthor |-> 1, nextBook |-> 1]

Idle ==
  [pc |-> "idle", h |-> "none", id |-> <<>>, raw |-> NoBody, body |-> NoBody,
   errors |-> <<>>, pending |-> {}, loc |-> NoLoc, write |-> NoWrite, res |-> {},
   doc |-> NoDoc, out |-> <<>>, before |-> EmptyStore]

\* The request as express hands it to the first middleware of its route.
Received(h, id, raw, d) ==
  [Idle EXCEPT !.pc = IF h \in BookFormPosts THEN "genre"
                      ELSE IF h \in AuthorFormPosts THEN "validate" ELSE "handler",
               !.h = h, !.id = id, !.raw = raw, !.body = raw, !.before = d]

\* The handler's code has run up to an await or to its return.
Continue(r, res) ==
  [r EXCEPT !.out = @ \o res.out,
            !.pending = res.pending,
            !.write = res.write,
            !.doc = IF res.doc = NoDoc THEN @ ELSE res.doc,
            !.pc = IF res.pending # {} THEN "reads"
                   ELSE IF res.write.op # "none" THEN "write" ELSE "done"]

\* catch (err) { next(err); }
Catch(r) ==
  [r EXCEPT !.out = Append(@, NextErr(StoreError)), !.pending = {},
            !.write = NoWrite, !.pc = "done"]

\* First middleware of the book POST routes.
StepGenre(r) ==
  [r EXCEPT !.body = [@ EXCEPT !.genre = GenreToArray(@)], !.pc = "validate"]

\* The validator middlewares of the POST routes.
StepValidate(r) ==
  LET v == IF r.h \in AuthorFormPosts THEN AuthorValidators(r.body)
           ELSE BookValidators(r.body)
  IN [r EXCEPT !.body = v.body, !.errors = v.errors, !.pc = "handler"]

\* Entry of the final handler; `new Author` / `new Book` without an _id draws an ObjectId.
StepHandler(r, d) ==
  [r |-> Continue(r, Run(r, d)),
   d |-> [d EXCEPT !.nextAuthor = IF r.h = "author_create_post" THEN @ + 1 ELSE @,
                   !.nextBook = IF r.h = "book_create_post" THEN @ + 1 ELSE @]]

\* One of the awaited reads resolves; the handler resumes when all have.
StepRead(r, d, q) ==
  LET r1 == [r EXCEPT !.loc = [@ EXCEPT ![q] = Query(q, r, d)], !.pending = @ \ {q}]
  IN IF r1.pending = {} THEN Continue(r1, Run(r1, d)) ELSE r1

\* The awaited write is carried out and the handler resumes.
StepWrite(r, d) ==
  LET r1 == [r EXCEPT !.res = WriteResult(r.write, d[r.write.model])]
  IN [r |-> Continue(r1, Run(r1, d)), d |-> ApplyWrite(r.write, d)]

----------------------------------------------------------------------------
(* Inputs *)

\* Form values: a padded valid name and a blank one, a valid and a non-alphanumeric
\* one, ISO and non-ISO dates and no date, a title to escape and a blank one.
FirstNames == {<<" ", "b">>, <<" ">>}
FamilyNames == {<<"a">>, <<"<">>}
BirthDates == {<<>>, <<"2020-01-01">>, <<"x">>}
DeathDates == {<<>>, <<"x">>}
Titles == {<<"<">>, <<" ">>}
BookAuthors == {<<>>, Id(1)}
Genres == {JSUndefined, JSString(<<"g">>), JSArray(<<JSString(<<"g">>)>>)}

AuthorBodies ==
  {[first_name |-> f, family_name |-> g, date_of_birth |-> b, date_of_death |-> e] :
     f \in FirstNames, g \in FamilyNames, b \in BirthDates, e \in DeathDates}
BookBodies ==
  {[title |-> t, author |-> a, summary |-> <<"s">>, isbn |-> <<"i">>, genre |-> g] :
     t \in Titles, a \in BookAuthors, g \in Genres}

BodiesOf(h) ==
  CASE h \in AuthorFormPosts -> AuthorBodies
    [] h \in BookFormPosts -> BookBodies
    [] h = "author_delete_post" -> {[authorid |-> i] : i \in Ids}
    [] h = "book_delete_post" -> {[bookid |-> i] : i \in Ids}
    [] OTHER -> {NoBody}

IdsOf(h) == IF h \in IdHandlers THEN Ids ELSE {<<>>}

\* Stores the server can start on: empty, or seeded with an author, a book of
\* that author, and a copy of that book.
SeedGenre == [_id |-> <<"g">>, name |-> <<"g">>]
SeedAuthor ==
  AuthorDoc(Id(1), AuthorValidators([first_name |-> <<"b">>, family_name |-> <<"a">>,
                                      date_of_birth |-> <<>>, date_of_death |-> <<>>]).body)
SeedBook ==
  BookDoc(Id(1), BookValidators([title |-> <<"<">>, author |-> Id(1), summary |-> <<"s">>,
                                  isbn |-> <<"i">>, genre |-> JSArray(<<>>)]).body, JSArray(<<>>))
SeedInstance == [_id |-> Id(1), book |-> Id(1), status |-> "Available"]

SeedStores ==
  LET s0 == [EmptyStore EXCEPT !.Genre = {SeedGenre}]
      s1 == [s0 EXCEPT !.Author = {SeedAuthor}, !.nextAuthor = 2]
      s2 == [s1 EXCEPT !.Book = {SeedBook}, !.nextBook = 2]
      s3 == [s2 EXCEPT !.BookInstance = {SeedInstance}]
  IN {s0, s1, s2, s3}

\* The handlers a request process serves: the server any, and in the race of a
\* delete with a book form, one each.
HandlersOf(p) ==
  CASE p = "del" -> DeletePosts
    [] p = "mut" -> BookFormPosts
    [] OTHER -> Handlers

\* An ObjectId is left for the document the handler will build.
CanBuild(h, d) ==
  /\ h = "author_create_post" => d.nextAuthor <= MaxId
  /\ h = "book_create_post" => d.nextBook <= MaxId

----------------------------------------------------------------------------
(* Actions *)

\* A request arrives and is routed to its handler.
Request(p) ==
  /\ req[p].pc = "idle"
  /\ \E h \in HandlersOf(p) : \E id \in IdsOf(h) : \E raw \in BodiesOf(h) :
       /\ CanBuild(h, db)
       /\ req' = [req EXCEPT ![p] = Received(h, id, raw, db)]
  /\ UNCHANGED <<db>>

GenreMiddleware(p) ==
  /\ req[p].pc = "genre"
  /\ req' = [req EXCEPT ![p] = StepGenre(@)]
  /\ UNCHANGED <<db>>

Validate(p) ==
  /\ req[p].pc = "validate"
  /\ req' = [req EXCEPT ![p] = StepValidate(@)]
  /\ UNCHANGED <<db>>

Handler(p) ==
  /\ req[p].pc = "handler"
  /\ LET s == StepHandler(req[p], db)
     IN /\ req' = [req EXCEPT ![p] = s.r]
        /\ db' = s.d

\* A read of the store resolves (ok) or rejects.
StoreRead(p, ok) ==
  /\ req[p].pc = "reads"
  /\ \E q \in req[p].pending :
       req' = [req EXCEPT ![p] = IF ok THEN StepRead(@, db, q) ELSE Catch(@)]
  /\ UNCHANGED <<db>>

\* A write of the store resolves (ok) or rejects.
StoreWrite(p, ok) ==
  /\ req[p].pc = "write"
  /\ LET s == StepWrite(req[p], db)
     IN IF ok
          THEN req' = [req EXCEPT ![p] = s.r] /\ db' = s.d
          ELSE req' = [req EXCEPT ![p] = Catch(@)] /\ UNCHANGED <<db>>

\* The response has been sent; the request and its locals are gone.
Finish(p) ==
  /\ req[p].pc = "done"
  /\ req' = [req EXCEPT ![p] = Idle]
  /\ UNCHANGED <<db>>

Serve(p, Oks) ==
  \/ GenreMiddleware(p)
  \/ Validate(p)
  \/ Handler(p)
  \/ \E ok \in Oks : StoreRead(p, ok)
  \/ \E ok \in Oks : StoreWrite(p, ok)

\* The request processes: one server, or the two requests of a race.
Server == {"server"}
Racers == {"del", "mut"}

Init ==
  /\ db \in SeedStores
  /\ req = [p \in Server |-> Idle]

\* Store calls resolve.
Next == \E p \in Server : Request(p) \/ Serve(p, {TRUE}) \/ Finish(p)
Spec == Init /\ [][Next]_vars

\* Store calls resolve or reject.
NextFault == \E p \in Server : Request(p) \/ Serve(p, BOOLEAN) \/ Finish(p)
SpecFault == Init /\ [][NextFault]_vars

\* A delete POST and a book form POST, both received on the same store, served
\* concurrently.
InitConc ==
  /\ db \in SeedStores
  /\ \E hd \in HandlersOf("del") : \E idd \in IdsOf(hd) : \E rawd \in BodiesOf(hd) :
     \E hm \in HandlersOf("mut") : \E idm \in IdsOf(hm) : \E rawm \in BodiesOf(hm) :
       /\ CanBuild(hm, db)
       /\ req = [p \in Racers |->
                   IF p = "del" THEN Received(hd, idd, rawd, db)
                   ELSE Received(hm, idm, rawm, db)]
NextConc == \E p \in Racers : Serve(p, {TRUE})
SpecConc == InitConc /\ [][NextConc]_vars

----------------------------------------------------------------------------
(* Running one request alone, and what the claims speak about *)

\* The store after the request r has been served with nothing else going on.
RECURSIVE RunAlone(_, _)
RunAlone(r, d) ==
  CASE r.pc = "genre" -> RunAlone(StepGenre(r), d)
    [] r.pc = "validate" -> RunAlone(StepValidate(r), d)
    [] r.pc = "handler" -> LET s == StepHandler(r, d) IN RunAlone(s.r, s.d)
    [] r.pc = "reads" -> RunAlone(StepRead(r, d, CHOOSE q \in r.pending : TRUE), d)
    [] r.pc = "write" -> LET s == StepWrite(r, d) IN RunAlone(s.r, s.d)
    [] OTHER -> d

Collections(d) == <<d.Author, d.Book, d.Genre, d.BookInstance>>

\* The request of process p as it arrived, served alone on store d.
Alone(p, d) == RunAlone(Received(req[p].h, req[p].id, req[p].raw, d), d)

Done(p) == req[p].pc = "done"
Outcome(p) == req[p].out[1]

\* The values the sanitizers leave of the submitted form fields.
SanitizedName(raw) == escape(trim(raw))
SanitizedDate(raw) ==
  IF raw = <<>> THEN JSString(<<>>)
  ELSE IF raw = <<"2020-01-01">> THEN JSDate(raw) ELSE JSNull
SanitizedAuthor(id, raw) ==
  [_id |-> id, first_name |-> SanitizedName(raw.first_name),
   family_name |-> SanitizedName(raw.family_name),
   date_of_birth |-> SanitizedDate(raw.date_of_birth),
   date_of_death |-> SanitizedDate(raw.date_of_death)]
SanitizedGenre(g) ==
  CASE g.t = "undefined" -> JSArray(<<>>)
    [] g.t = "string" -> JSArray(<<JSString(escape(g.v))>>)
    [] OTHER -> JSArray([i \in 1..Len(g.v) |-> JSString(escape(g.v[i].v))])
SanitizedBook(id, raw) ==
  [_id |-> id, title |-> SanitizedName(raw.title), author |-> SanitizedName(raw.author),
   summary |-> SanitizedName(raw.summary), isbn |-> SanitizedName(raw.isbn),
   genre |-> SanitizedGenre(raw.genre)]

----------------------------------------------------------------------------
(* Claims *)

Referenced(author, d) == \E b \in d.Book : b.author = author._id
HasCopies(book, d) == \E i \in d.BookInstance : i.book = book._id

\* C1: a delete POST, whatever ids its URL and its body carry, never removes an
\* Author that a Book still references nor a Book that a BookInstance still
\* references; with dependents the store is left as it was.
C1_GuardedDelete ==
  \A p \in DOMAIN req :
    (Done(p) /\ req[p].h \in DeletePosts) =>
      /\ \A a \in req[p].before.Author \ db.Author : ~Referenced(a, req[p].before)
      /\ \A b \in req[p].before.Book \ db.Book : ~HasCopies(b, req[p].before)
      /\ (\/ /\ req[p].h = "author_delete_post"
             /\ \E a \in findById(req[p].before.Author, req[p].body.authorid) :
                  Referenced(a, req[p].before)
          \/ /\ req[p].h = "book_delete_post"
             /\ \E b \in findById(req[p].before.Book, req[p].body.bookid) :
                  HasCopies(b, req[p].before))
           => Collections(db) = Collections(req[p].before)

\* C2: author_create_post with fields that all pass validation adds exactly one
\* new Author holding the submitted fields (as sanitized) and redirects to the
\* url of that author.
C2_CreateAuthorRedirects ==
  \A p \in DOMAIN req :
    (Done(p) /\ req[p].h = "author_create_post" /\ req[p].errors = <<>>) =>
      LET r == req[p]
          new == db.Author \ r.before.Author
      IN /\ Cardinality(new) = 1
         /\ r.before.Author \subseteq db.Author
         /\ \A a \in new :
              /\ a = SanitizedAuthor(a._id, r.raw)
              /\ findById(r.before.Author, a._id) = {}
              /\ r.out = <<Redirect(AuthorUrl(a))>>
         /\ db.Book = r.before.Book

C2_Witness ==
  \E p \in DOMAIN req :
    /\ Done(p) /\ req[p].h = "author_create_post" /\ req[p].errors = <<>>
    /\ req[p].raw.first_name = <<" ", "b">>
    /\ req[p].raw.date_of_birth = <<"2020-01-01">>
    /\ Outcome(p).kind = "redirect"
    /\ Cardinality(db.Author) = 2

NotFoundHandlers ==
  {"author_detail", "author_update_get", "author_update_post",
   "book_detail", "book_update_get", "book_update_post"}

Missing(p) ==
  IF req[p].h \in AuthorHandlers
    THEN findById(req[p].before.Author, req[p].id) = {}
    ELSE findById(req[p].before.Book, req[p].id) = {}

\* C3: a detail or update handler whose :id names no record ends in next(err)
\* with err.status = 404 and renders or redirects nothing.
C3_NotFoundIs404 ==
  \A p \in DOMAIN req :
    (Done(p) /\ req[p].h \in NotFoundHandlers /\ Missing(p)) =>
      /\ Len(req[p].out) = 1
      /\ Outcome(p).kind = "next"
      /\ Outcome(p).err.status = 404

DeleteHandlers ==
  {"author_delete_get", "author_delete_post", "book_delete_get", "book_delete_post"}

\* C5: with store calls resolving, a delete GET or POST ends in a redirect to
\* the list of its entity or in a render of its delete page, never in next(err).
C5_DeleteNeverErrors ==
  \A p \in DOMAIN req :
    (Done(p) /\ req[p].h \in DeleteHandlers) =>
      /\ Len(req[p].out) = 1
      /\ IF req[p].h \in AuthorHandlers
           THEN \/ Outcome(p) = Redirect(<<"/catalog/authors">>)
                \/ Outcome(p).kind = "render" /\ Outcome(p).view = "author_delete"
           ELSE \/ Outcome(p) = Redirect(<<"/catalog/books">>)
                \/ Outcome(p).kind = "render" /\ Outcome(p).view = "book_delete"

\* A delete POST whose URL and body name no record ended in the redirect.
C5_Witness ==
  \E p \in DOMAIN req :
    /\ Done(p) /\ req[p].h = "book_delete_post" /\ Missing(p)
    /\ findById(req[p].before.Book, req[p].body.bookid) = {}
    /\ Outcome(p) = Redirect(<<"/catalog/books">>)

FormTitle(h) ==
  CASE h = "author_create_post" -> "Create Author"
    [] h = "author_update_post" -> "Update Author"
    [] h = "book_create_post" -> "Create Book"
    [] OTHER -> "Update Book"

FormFields ==
  {"first_name", "family_name", "date_of_birth", "date_of_death",
   "title", "author", "summary", "isbn", "genre"}

\* C4: a create or update POST with a field that fails validation renders its
\* own form (author_form / book_form under the Create or Update title) with the
\* submitted values (as sanitized) and a non-empty list of field errors; it
\* does not redirect.
C4_InvalidFormIsRerendered ==
  \A p \in DOMAIN req :
    (Done(p) /\ req[p].h \in FormPosts /\ req[p].errors # <<>>) =>
      LET r == req[p]
          id == IF r.h \in CreatePosts THEN r.doc._id ELSE r.id
      IN /\ Len(r.out) = 1
         /\ Outcome(p).kind = "render"
         /\ Outcome(p).locals.title = FormTitle(r.h)
         /\ Outcome(p).locals.errors # <<>>
         /\ \A i \in 1..Len(Outcome(p).locals.errors) :
              Outcome(p).locals.errors[i].path \in FormFields
         /\ IF r.h \in AuthorFormPosts
              THEN /\ Outcome(p).view = "author_form"
                   /\ Outcome(p).locals.author = SanitizedAuthor(id, r.raw)
              ELSE /\ Outcome(p).view = "book_form"
                   /\ Outcome(p).locals.book = SanitizedBook(id, r.raw)

C4_Witness ==
  \E p \in DOMAIN req :
    /\ Done(p) /\ req[p].h = "author_update_post"
    /\ Len(req[p].errors) >= 2
    /\ req[p].raw.family_name = <<"<">>
    /\ Outcome(p).kind = "render"

Both == Done("del") /\ Done("mut")

\* The stores the two requests can leave when served one after the other.
SerialOutcomes ==
  LET d0 == req["del"].before
  IN {Collections(Alone("mut", Alone("del", d0))),
      Collections(Alone("del", Alone("mut", d0)))}

\* The authors the delete request removed, the request being the one the delete
\* page of that author sends (URL and body name the same author).
RemovedAuthors ==
  IF /\ req["del"].h = "author_delete_post" /\ Outcome("del").kind = "redirect"
     /\ req["del"].id = req["del"].body.authorid
    THEN {a \in req["del"].before.Author : findById(db.Author, a._id) = {}}
    ELSE {}

\* C6 as stated: a delete POST racing with a book form POST leaves the store of
\* one of the two serial orders, and so no Book that names an Author the delete
\* removed (taken here only for deletes whose URL and body agree).
C6_SerialAndNoDangling ==
  Both => /\ Collections(db) \in SerialOutcomes
          /\ \A a \in RemovedAuthors : ~Referenced(a, db)

\* C6 as amended: a delete POST racing with a book form POST leaves the store
\* of one of the two serial orders (which does not keep a Book from naming the
\* Author that was removed).
C6_Serializable == Both => Collections(db) \in SerialOutcomes

\* The delete of author 1, asked for under its own URL, went through and the
\* book created by the other request names author 1.
C6_Witness ==
  /\ Both
  /\ req["del"].h = "author_delete_post"
  /\ req["mut"].h = "book_create_post"
  /\ \E a \in RemovedAuthors : \E b \in db.Book \ req["mut"].before.Book : b.author = a._id

\* C7: author_update_post / book_update_post with valid fields for an existing
\* id puts the submitted fields (as sanitized) on the record of that id, keeps
\* its _id, the number of records and every other record, and redirects to the
\* url of that id.
C7_UpdateKeepsIdentity ==
  \A p \in DOMAIN req :
    (Done(p) /\ req[p].h \in {"author_update_post", "book_update_post"}
       /\ req[p].errors = <<>> /\ ~Missing(p)) =>
      LET r == req[p]
      IN /\ db.Genre = r.before.Genre /\ db.BookInstance = r.before.BookInstance
         /\ IF r.h = "author_update_post"
              THEN /\ db.Author = {IF a._id = r.id THEN SanitizedAuthor(r.id, r.raw) ELSE a :
                                     a \in r.before.Author}
                   /\ Cardinality(db.Author) = Cardinality(r.before.Author)
                   /\ db.Book = r.before.Book
                   /\ r.out = <<Redirect(AuthorUrl([_id |-> r.id]))>>
              ELSE /\ db.Book = {IF b._id = r.id THEN SanitizedBook(r.id, r.raw) ELSE b :
                                   b \in r.before.Book}
                   /\ Cardinality(db.Book) = Cardinality(r.before.Book)
                   /\ db.Author = r.before.Author
                   /\ r.out = <<Redirect(BookUrl([_id |-> r.id]))>>

\* An update that changed a record while another record of the collection stood by.
C7_Witness ==
  \E p \in DOMAIN req :
    /\ Done(p) /\ req[p].h = "book_update_post" /\ req[p].errors = <<>> /\ ~Missing(p)
    /\ Cardinality(db.Book) = 2
    /\ db.Book # req[p].before.Book

\* C8: after the first middleware of the book POST routes req.body.genre is an
\* array: [] for undefined, [v] for a value v that is no array, the array
\* itself for an array; the conversion applied again changes nothing.
C8_GenreIsArray ==
  \A p \in DOMAIN req :
    (req[p].h \in BookFormPosts /\ req[p].pc # "genre") =>
      /\ req[p].body.genre.t = "array"
      /\ req[p].pc = "validate" =>
           /\ req[p].raw.genre.t = "undefined" => req[p].body.genre = JSArray(<<>>)
           /\ req[p].raw.genre.t \notin {"undefined", "array"} =>
                req[p].body.genre = JSArray(<<req[p].raw.genre>>)
           /\ req[p].raw.genre.t = "array" => req[p].body.genre = req[p].raw.genre
           /\ GenreToArray(req[p].body.genre) = req[p].body.genre

C8_Witness ==
  \E p \in DOMAIN req :
    /\ req[p].h = "book_update_post" /\ req[p].pc = "validate"
    /\ req[p].raw.genre.t = "array"
    /\ req[p].body.genre = req[p].raw.genre

\* C9: every handler, whether records are found or missing, fields valid or
\* not, store calls resolved or rejected, ends with exactly one of res.render,
\* res.redirect and next(err), and never produces two.
C9_ExactlyOneOutcome ==
  \A p \in DOMAIN req :
    /\ Len(req[p].out) <= 1
    /\ Done(p) => /\ Len(req[p].out) = 1
                  /\ Outcome(p).kind \in {"render", "redirect", "next"}
    /\ req[p].pc \in {"idle", "genre", "validate", "handler"} => req[p].out = <<>>

\* A handler ended by the rejection of the last of its three reads.
C9_Witness ==
  \E p \in DOMAIN req :
    /\ Done(p) /\ req[p].h = "book_update_get"
    /\ req[p].out = <<NextErr(StoreError)>>
    /\ req[p].loc["book"] # {}

\* C10: a create or update POST with a validation error leaves the Author,
\* Book, Genre and BookInstance collections as they were when it arrived.
C10_RejectedFormWritesNothing ==
  \A p \in DOMAIN req :
    (req[p].h \in FormPosts /\ req[p].errors # <<>>) =>
      Collections(db) = Collections(req[p].before)

\* A rejected update of a record that exists.
C10_Witness ==
  \E p \in DOMAIN req :
    /\ Done(p) /\ req[p].h = "book_update_post" /\ req[p].errors # <<>> /\ ~Missing(p)
    /\ Outcome(p).kind = "render"

====
